---- MODULE Spec2Model ----
(***************************************************************************)
(* Model of run_benchmarks.py: the sweep driver run_benchmark, the report  *)
(* it appends to save_file, and the two readers of that report,            *)
(* parse_results and generate_tables.                                      *)
(*                                                                         *)
(* Text is modelled at token level.  A file is a sequence of lines and a   *)
(* line is a record [lab, val]: lab holds its leading space-separated      *)
(* words, val the number tokens that follow them.  A number token is a     *)
(* pair <<n, kind>>: n is the value (floats in 1/1000 s) and kind names    *)
(* the format of the text ("int" for str(int), "repr" for str(float),      *)
(* "f3" for "%.3f", "bool" for str(bool)) between the punctuation glued to *)
(* the number ("[", "]" and ",").  Raw clock differences and per-call      *)
(* times are in 1/10000 s (ticks).                                         *)
(***************************************************************************)
EXTENDS Integers, Sequences, FiniteSets, TLC

\* ------------------------------------------------------------------ bounds
MaxPoints == 2
MaxValue == 3
MaxTrials == 4

\* ----------------------------------------------------------- input domains
Kinds == {"random", "intersection_vertices", "intersection_objectives"}
BenchmarkTypes == Kinds \cup {"unsupported"}
Steps == {-1, 0, 1, 2}

\* ------------------------------------------------------------- arithmetic
RECURSIVE SumSeq(_)
SumSeq(s) == IF s = <<>> THEN 0 ELSE s[1] + SumSeq(Tail(s))

\* rounding of the exact quotient num/den to the nearest integer, ties to even
RoundHalfEven(num, den) ==
    LET q == num \div den
        r == num % den
    IN  IF 2 * r < den THEN q
        ELSE IF 2 * r > den THEN q + 1
        ELSE IF q % 2 = 0 THEN q ELSE q + 1

\* float("%.3f" % ticks): a raw duration in ticks rounded to milliseconds
Round3(ticks) == RoundHalfEven(ticks, 10)

\* float("%.3f" % statistics.mean(times)) of raw per-call times in ticks
MeanCallTime(times) == RoundHalfEven(SumSeq(times), 10 * Len(times))

\* "%.2f" in place of "%.3f"
Mean3_TwoDecimals(s) == 10 * RoundHalfEven(SumSeq(s), 10 * Len(s))

\* "%.3f" % statistics.mean(s) of a series of floats held in milliseconds
Mean3(s) == RoundHalfEven(SumSeq(s), Len(s))

\* "%.3f" % statistics.mean(s) of a series of ints, result in thousandths
Mean3Int(s) == RoundHalfEven(1000 * SumSeq(s), Len(s))

\* list(range(start, end, step)), step # 0
RECURSIVE PyRange(_, _, _)
PyRange(start, end, step) ==
    IF (step > 0 /\ start < end) \/ (step < 0 /\ start > end)
    THEN <<start>> \o PyRange(start + step, end, step)
    ELSE <<>>

Reverse(s) == [k \in 1..Len(s) |-> s[Len(s) + 1 - k]]

RECURSIVE Flatten(_)
Flatten(ss) == IF ss = <<>> THEN <<>> ELSE ss[1] \o Flatten(Tail(ss))

\* ------------------------------------------------------------------- text
\* A number token <<n, kind>>: kind is the format of the number with the
\* punctuation glued to it, as in "[repr," for the first float of a list.
Formats == {"int", "repr", "f3", "bool", "empty"}

Num(f, v, a, b) == <<v, a \o f \o b>>

TokKinds ==
    { [k |-> a \o f \o b, fmt |-> f, pre |-> a, post |-> b] :
        f \in Formats, a \in {"", "["}, b \in {"", ",", "]"} }

KindOf(t) == CHOOSE r \in TokKinds : r.k = t[2]

IsNumberTok(t) == KindOf(t).fmt \in {"int", "repr", "f3"}

\* a line of text: its leading words, then its number tokens
Line(ws, toks) == [lab |-> ws, val |-> toks]

BlankLine == Line(<<>>, <<>>)

\* str(list): "[a, b, c]" split on spaces; "[]" for the empty list
StrList(f, s) ==
    IF s = <<>> THEN <<Num("empty", 0, "[", "]")>>
    ELSE [k \in 1..Len(s) |->
            Num(f, s[k], IF k = 1 THEN "[" ELSE "",
                         IF k = Len(s) THEN "]" ELSE ",")]

\* str(parameters): ints, floats and the positivity flag (a bool, held as 1/0)
StrParameters(p) ==
    [k \in 1..Len(p) |->
        Num(IF k = Len(p) THEN "bool" ELSE IF k = 1 THEN "int" ELSE "repr",
            p[k], IF k = 1 THEN "[" ELSE "", IF k = Len(p) THEN "]" ELSE ",")]

\* one f.write call: the tokens of its text and whether the text ends in "\n"
Chunk(ws, toks, newline) == [lab |-> ws, val |-> toks, nl |-> newline]

\* the lines that a sequence of f.write calls adds to a file, cur being the
\* line under construction
RECURSIVE Assemble(_, _)
Assemble(chunks, cur) ==
    IF chunks = <<>> THEN (IF cur = BlankLine THEN <<>> ELSE <<cur>>)
    ELSE LET c == Head(chunks)
             joined == Line(cur.lab \o c.lab, cur.val \o c.val)
         IN  IF c.nl THEN <<joined>> \o Assemble(Tail(chunks), BlankLine)
             ELSE Assemble(Tail(chunks), joined)
\* ------------------------------------------------------ instance provider
\* what a generator of benchmarks returns: the StatisticsBundle (stats, with
\* raw per-call times in ticks) and the number of objectives (nbr); ce and ao
\* are the (process_time, perf_counter, time) differences, in ticks, that the
\* two algorithms take on the instance
Instances ==
    { [nbr |-> 2,
       stats |-> <<2, 1, 2, 1, <<2, <<1251, 3749>>>>, <<1, <<1251>>>>,
                   2, <<1, <<2499>>>>, <<2, <<1251, 1251>>>>>>,
       ce |-> <<1251, 1251, 2499>>, ao |-> <<4999, 5001, 5001>>],
      [nbr |-> 3,
       stats |-> <<3, 3, 4, 2, <<1, <<4999>>>>, <<3, <<1251, 1251, 1251>>>>,
                   1, <<2, <<4999, 5001>>>>, <<1, <<2499>>>>>>,
       ce |-> <<2499, 2501, 4999>>, ao |-> <<1251, 2499, 2499>>] }

\* ----------------------------------------------------------------- series
StatNames ==
    { "temp_antichain_sizes", "temp_nbr_payoffs_losing_player_0",
      "temp_nbr_payoffs_realizable",
      "temp_counterexample_antichain_sizes", "temp_counterexample_nbr_calls",
      "temp_counterexample_nbr_calls_exists",
      "temp_counterexample_mean_time_calls_exists",
      "temp_counterexample_nbr_calls_dominated",
      "temp_counterexample_mean_time_calls_dominated",
      "temp_antichain_optimization_antichain_sizes",
      "temp_antichain_optimization_nbr_calls",
      "temp_antichain_optimization_nbr_calls1",
      "temp_antichain_optimization_mean_time_calls1",
      "temp_antichain_optimization_nbr_calls2",
      "temp_antichain_optimization_mean_time_calls2" }

CETimeNames ==
    { "counterexample_times_process", "counterexample_times_perf_counter",
      "counterexample_times" }

AOTimeNames ==
    { "antichain_optimization_times_process",
      "antichain_optimization_times_perf_counter",
      "antichain_optimization_times" }

SeriesNames == StatNames \cup CETimeNames \cup AOTimeNames

\* lines 66-91: the lists created at the start of a sweep-value iteration
EmptySeries == [name \in SeriesNames |-> <<>>]

\* lines 118-134: the entry each statistic series receives from stats
StatEntry(stats) ==
    [ temp_antichain_sizes |-> stats[1],
      temp_nbr_payoffs_losing_player_0 |-> stats[2],
      temp_nbr_payoffs_realizable |-> stats[3],
      temp_counterexample_antichain_sizes |-> stats[4],
      temp_counterexample_nbr_calls_exists |-> stats[5][1],
      temp_counterexample_mean_time_calls_exists |-> MeanCallTime(stats[5][2]),
      temp_counterexample_nbr_calls_dominated |-> stats[6][1],
      temp_counterexample_mean_time_calls_dominated |-> MeanCallTime(stats[6][2]),
      temp_counterexample_nbr_calls |-> stats[5][1] + stats[6][1],
      temp_antichain_optimization_antichain_sizes |-> stats[7],
      temp_antichain_optimization_nbr_calls1 |-> stats[8][1],
      temp_antichain_optimization_mean_time_calls1 |-> MeanCallTime(stats[8][2]),
      temp_antichain_optimization_nbr_calls2 |-> stats[9][1],
      temp_antichain_optimization_mean_time_calls2 |-> MeanCallTime(stats[9][2]),
      temp_antichain_optimization_nbr_calls |-> stats[8][1] + stats[9][1] ]

AppendEntry(ser, entry) ==
    [name \in SeriesNames |->
        IF name \in DOMAIN entry THEN Append(ser[name], entry[name]) ELSE ser[name]]

AppendStats(ser, stats) == AppendEntry(ser, StatEntry(stats))

\* lines 150-152: the three rounded durations of the counterexample call
CETimeEntry(t) ==
    [ counterexample_times_process |-> Round3(t[1]),
      counterexample_times_perf_counter |-> Round3(t[2]),
      counterexample_times |-> Round3(t[3]) ]

\* lines 168-170: the three rounded durations of the antichain optimization call
AOTimeEntry(t) ==
    [ antichain_optimization_times_process |-> Round3(t[1]),
      antichain_optimization_times_perf_counter |-> Round3(t[2]),
      antichain_optimization_times |-> Round3(t[3]) ]

AppendCETimes(ser, t) == AppendEntry(ser, CETimeEntry(t))

AppendAOTimes(ser, t) == AppendEntry(ser, AOTimeEntry(t))

\* ---------------------------------------------------------- report writer
IntLine(ws, s) == Chunk(ws, StrList("int", s), TRUE)
FloatLine(ws, s) == Chunk(ws, StrList("repr", s), TRUE)
MeanIntLine(ws, s) == Chunk(ws, <<Num("f3", Mean3Int(s), "", "")>>, TRUE)
MeanFloatLine(ws, s) == Chunk(ws, <<Num("f3", Mean3(s), "", "")>>, TRUE)

\* two f.write("\n") where lines 257-259 have three
EndOfBlock_TwoNewlines == << Chunk(<<>>, <<>>, TRUE), Chunk(<<>>, <<>>, TRUE) >>

\* lines 257-259: f.write("\n") three times, after a line that is complete
EndOfBlock == << Chunk(<<>>, <<>>, TRUE), Chunk(<<>>, <<>>, TRUE), Chunk(<<>>, <<>>, TRUE) >>

\* the groups of f.write calls of lines 198-259, in source order
NGroups == 12

WriteCalls(g, i, p, nb, ser) ==
    CASE g = 1 ->
         << Chunk(<<"Variable", "value", "used">>, <<Num("int", i, "", "")>>, TRUE),
            Chunk(<<"Parameters">>, StrParameters(p), TRUE),
            Chunk(<<"Number", "of", "objectives">>, <<Num("int", nb, "", "")>>, TRUE) >>
      [] g = 2 ->
         << IntLine(<<"Antichain", "sizes">>, ser.temp_antichain_sizes),
            IntLine(<<"Number", "of", "payoffs", "losing">>,
                    ser.temp_nbr_payoffs_losing_player_0),
            IntLine(<<"Number", "of", "payoffs", "realizable">>,
                    ser.temp_nbr_payoffs_realizable) >>
      [] g = 3 ->
         << IntLine(<<"CE", "antichain", "sizes">>,
                    ser.temp_counterexample_antichain_sizes),
            IntLine(<<"CE", "exists", "calls">>,
                    ser.temp_counterexample_nbr_calls_exists),
            FloatLine(<<"CE", "exists", "calls", "times">>,
                      ser.temp_counterexample_mean_time_calls_exists),
            IntLine(<<"CE", "dominated", "calls">>,
                    ser.temp_counterexample_nbr_calls_dominated),
            FloatLine(<<"CE", "dominated", "calls", "times">>,
                      ser.temp_counterexample_mean_time_calls_dominated),
            IntLine(<<"CE", "total", "nbr", "calls">>,
                    ser.temp_counterexample_nbr_calls) >>
      [] g = 4 ->
         << FloatLine(<<"CE", "times", "process">>, ser.counterexample_times_process),
            FloatLine(<<"CE", "times", "perf">>, ser.counterexample_times_perf_counter),
            FloatLine(<<"CE", "times">>, ser.counterexample_times) >>
      [] g = 5 ->
         << IntLine(<<"AO", "antichain", "sizes">>,
                    ser.temp_antichain_optimization_antichain_sizes),
            IntLine(<<"AO", "call1", "calls">>,
                    ser.temp_antichain_optimization_nbr_calls1),
            FloatLine(<<"AO", "call1", "calls", "times">>,
                      ser.temp_antichain_optimization_mean_time_calls1),
            IntLine(<<"AO", "call2", "calls">>,
                    ser.temp_antichain_optimization_nbr_calls2),
            FloatLine(<<"AO", "call2", "calls", "times">>,
                      ser.temp_antichain_optimization_mean_time_calls2),
            IntLine(<<"AO", "total", "nbr", "calls">>,
                    ser.temp_antichain_optimization_nbr_calls) >>
      [] g = 6 ->
         << FloatLine(<<"AO", "times", "process">>,
                      ser.antichain_optimization_times_process),
            FloatLine(<<"AO", "times", "perf">>,
                      ser.antichain_optimization_times_perf_counter),
            FloatLine(<<"AO", "times">>, ser.antichain_optimization_times) >>
      [] g = 7 ->
         << Chunk(<<"Mean", "running", "time", "CE">>,
                  <<Num("f3", Mean3(ser.counterexample_times_process), "", ",")>>, FALSE),
            Chunk(<<>>, <<Num("f3", Mean3(ser.counterexample_times_perf_counter), "", ",")>>,
                  FALSE),
            Chunk(<<>>, <<Num("f3", Mean3(ser.counterexample_times), "", "")>>, TRUE) >>
      [] g = 8 ->
         << Chunk(<<"Mean", "running", "time", "AO">>,
                  <<Num("f3", Mean3(ser.antichain_optimization_times_process), "", ",")>>,
                  FALSE),
            Chunk(<<>>,
                  <<Num("f3", Mean3(ser.antichain_optimization_times_perf_counter), "", ",")>>,
                  FALSE),
            Chunk(<<>>, <<Num("f3", Mean3(ser.antichain_optimization_times), "", "")>>,
                  TRUE) >>
      [] g = 9 ->
         << MeanIntLine(<<"Mean", "antichain", "size">>, ser.temp_antichain_sizes),
            MeanIntLine(<<"Mean", "number", "losing", "payoffs">>,
                        ser.temp_nbr_payoffs_losing_player_0),
            MeanIntLine(<<"Mean", "number", "realizable", "payoffs">>,
                        ser.temp_nbr_payoffs_realizable) >>
      [] g = 10 ->
         << MeanIntLine(<<"CE", "mean", "antichain", "size">>,
                        ser.temp_counterexample_antichain_sizes),
            MeanIntLine(<<"CE", "mean", "nbr", "exists", "calls">>,
                        ser.temp_counterexample_nbr_calls_exists),
            MeanFloatLine(<<"CE", "mean", "exists", "time">>,
                          ser.temp_counterexample_mean_time_calls_exists),
            MeanIntLine(<<"CE", "mean", "nbr", "dominated", "calls">>,
                        ser.temp_counterexample_nbr_calls_dominated),
            MeanFloatLine(<<"CE", "mean", "dominated", "time">>,
                          ser.temp_counterexample_mean_time_calls_dominated),
            MeanIntLine(<<"CE", "mean", "total", "nbr", "calls">>,
                        ser.temp_counterexample_nbr_calls) >>
      [] g = 11 ->
         << MeanIntLine(<<"AO", "mean", "antichain", "size">>,
                        ser.temp_antichain_optimization_antichain_sizes),
            MeanIntLine(<<"AO", "mean", "nbr", "call1", "calls">>,
                        ser.temp_antichain_optimization_nbr_calls1),
            MeanFloatLine(<<"AO", "mean", "call1", "time">>,
                          ser.temp_antichain_optimization_mean_time_calls1),
            MeanIntLine(<<"AO", "mean", "nbr", "call2", "calls">>,
                        ser.temp_antichain_optimization_nbr_calls2),
            MeanFloatLine(<<"AO", "mean", "call2", "time">>,
                          ser.temp_antichain_optimization_mean_time_calls2),
            MeanIntLine(<<"AO", "mean", "total", "nbr", "calls">>,
                        ser.temp_antichain_optimization_nbr_calls) >>
      [] g = 12 -> EndOfBlock

\* the lines one group of f.write calls appends
GroupLines(g, i, p, nb, ser) == Assemble(WriteCalls(g, i, p, nb, ser), BlankLine)

\* the whole block of lines 198-259
BlockLines(i, p, nb, ser) ==
    Flatten([g \in 1..NGroups |-> GroupLines(g, i, p, nb, ser)])

\* ---------------------------------------------------------- report parser
\* len(line.rstrip().split(" ")): a blank line gives the single token ""
NTokens(line) == IF line = BlankLine THEN 1 ELSE Len(line.lab) + Len(line.val)

\* line[k - 1] == w for a token that exists
IsWordAt(line, k, w) ==
    IF line = BlankLine THEN w = ""
    ELSE k <= Len(line.lab) /\ line.lab[k] = w

\* the comparisons all evaluated, as with & in place of and
MatchFrom_Eager(line, ws, k) ==
    IF Len(ws) > NTokens(line) THEN "IndexError"
    ELSE IF \A q \in k..Len(ws) : IsWordAt(line, q, ws[q]) THEN "yes"
    ELSE "no"

\* line[0] == ws[0] and line[1] == ws[1] and ...: evaluated left to right,
\* stopping at the first difference; indexing past the end is an IndexError
RECURSIVE MatchFrom(_, _, _)
MatchFrom(line, ws, k) ==
    IF k > Len(ws) THEN "yes"
    ELSE IF k > NTokens(line) THEN "IndexError"
    ELSE IF ~IsWordAt(line, k, ws[k]) THEN "no"
    ELSE MatchFrom(line, ws, k + 1)

MatchLabel(line, ws) == MatchFrom(line, ws, 1)

\* the Python value a number token denotes, as the token str() gives for it:
\* an int, or a float in 1/1000
Value(t) == Num(IF KindOf(t).fmt = "int" THEN "int" ELSE "repr", t[1], "", "")

\* float(v)
ToFloat(v) == Num("repr", IF KindOf(v).fmt = "int" THEN 1000 * v[1] ELSE v[1], "", "")

\* ast.literal_eval(" ".join(line[from - 1:])) for the literals a report
\* holds: a list "[a, b]", a tuple "a, b" or a single number; anything else,
\* a word included, is an error
LiteralEval(line, from) ==
    LET toks == SubSeq(line.val, from - Len(line.lab), Len(line.val))
        n == Len(toks)
        vals == [k \in 1..n |-> Value(toks[k])]
        inner == /\ \A k \in 1..n : IsNumberTok(toks[k])
                 /\ \A k \in 1..(n - 1) : KindOf(toks[k]).post = ","
                 /\ \A k \in 2..n : KindOf(toks[k]).pre = ""
        first == KindOf(toks[1])
        last == KindOf(toks[n])
        error == [ok |-> FALSE, kind |-> "error", vals |-> <<>>]
    IN  IF Len(line.lab) >= from \/ n = 0 THEN error
        ELSE IF n = 1 /\ first.fmt = "empty"
             THEN [ok |-> TRUE, kind |-> "list", vals |-> <<>>]
        ELSE IF inner /\ first.pre = "[" /\ last.post = "]"
             THEN [ok |-> TRUE, kind |-> "list", vals |-> vals]
        ELSE IF inner /\ first.pre = "" /\ last.post = "" /\ n > 1
             THEN [ok |-> TRUE, kind |-> "tuple", vals |-> vals]
        ELSE IF inner /\ first.pre = "" /\ last.post = "" /\ n = 1
             THEN [ok |-> TRUE, kind |-> "num", vals |-> vals]
        ELSE error

Rep(v, n) == [k \in 1..n |-> v]

Fail(st, e) == [st EXCEPT !.state = e]

\* XValues without the transform of line 310
XValues_NoTransform(kind, current_x, N) ==
    Flatten([k \in 1..N |->
        (IF kind = "intersection_vertices" THEN <<current_x>> ELSE <<>>)
        \o (IF kind = "intersection_objectives" THEN <<current_x>> ELSE <<>>)
        \o (IF kind = "random" THEN <<current_x>> ELSE <<>>)])

\* lines 307-312: the x values one "Variable value used" line contributes
XValues(kind, current_x, N) ==
    Flatten([k \in 1..N |->
        (IF kind = "intersection_vertices" THEN <<current_x>> ELSE <<>>)
        \o (IF kind = "intersection_objectives" THEN <<2 + current_x * 2>> ELSE <<>>)
        \o (IF kind = "random" THEN <<current_x>> ELSE <<>>)])

\* int(line[3]) succeeds on the text of an int
IsIntText(line, k) ==
    /\ Len(line.lab) = k - 1
    /\ KindOf(line.val[1]) = [k |-> "int", fmt |-> "int", pre |-> "", post |-> ""]

\* lines 304-312
ScanVariable(st, line, kind, N) ==
    LET m == MatchLabel(line, <<"Variable", "value", "used">>)
    IN  IF m = "IndexError" THEN Fail(st, "IndexError")
        ELSE IF m = "no" THEN st
        ELSE IF NTokens(line) < 4 THEN Fail(st, "IndexError")
        ELSE IF ~IsIntText(line, 4) THEN Fail(st, "ValueError")
        ELSE [st EXCEPT !.x = @ \o XValues(kind, line.val[1][1], N)]

\* ScanTimes appending the first time of the list on each of the N turns
ScanTimes_FirstEntry(st, line, label, field, N) ==
    LET m == MatchLabel(line, <<label, "times", "process">>)
        lit == LiteralEval(line, 4)
    IN  IF m = "IndexError" THEN Fail(st, "IndexError")
        ELSE IF m = "no" THEN st
        ELSE IF ~lit.ok THEN Fail(st, "SyntaxError")
        ELSE IF N = 0 THEN st
        ELSE IF lit.kind = "num" THEN Fail(st, "TypeError")
        ELSE IF Len(lit.vals) < N THEN Fail(st, "IndexError")
        ELSE [st EXCEPT ![field] = @ \o Rep(lit.vals[1], N)]

\* lines 314-317 and 319-322: label is "CE" or "AO", field the list appended to
ScanTimes(st, line, label, field, N) ==
    LET m == MatchLabel(line, <<label, "times", "process">>)
        lit == LiteralEval(line, 4)
    IN  IF m = "IndexError" THEN Fail(st, "IndexError")
        ELSE IF m = "no" THEN st
        ELSE IF ~lit.ok THEN Fail(st, "SyntaxError")
        ELSE IF N = 0 THEN st
        ELSE IF lit.kind = "num" THEN Fail(st, "TypeError")
        ELSE IF Len(lit.vals) < N THEN Fail(st, "IndexError")
        ELSE [st EXCEPT ![field] = @ \o SubSeq(lit.vals, 1, N)]

\* ScanMean appending the mean once, not once per trial
ScanMean_Once(st, line, label, field, N) ==
    LET m == MatchLabel(line, <<"Mean", "running", "time", label>>)
        lit == LiteralEval(line, 5)
    IN  IF m = "IndexError" THEN Fail(st, "IndexError")
        ELSE IF m = "no" THEN st
        ELSE IF ~lit.ok THEN Fail(st, "SyntaxError")
        ELSE IF N = 0 THEN st
        ELSE IF lit.kind = "num" THEN Fail(st, "TypeError")
        ELSE IF lit.vals = <<>> THEN Fail(st, "IndexError")
        ELSE [st EXCEPT ![field] = @ \o Rep(ToFloat(lit.vals[1]), 1)]

\* lines 326-329 and 331-334
ScanMean(st, line, label, field, N) ==
    LET m == MatchLabel(line, <<"Mean", "running", "time", label>>)
        lit == LiteralEval(line, 5)
    IN  IF m = "IndexError" THEN Fail(st, "IndexError")
        ELSE IF m = "no" THEN st
        ELSE IF ~lit.ok THEN Fail(st, "SyntaxError")
        ELSE IF N = 0 THEN st
        ELSE IF lit.kind = "num" THEN Fail(st, "TypeError")
        ELSE IF lit.vals = <<>> THEN Fail(st, "IndexError")
        ELSE [st EXCEPT ![field] = @ \o Rep(ToFloat(lit.vals[1]), N)]

\* lines 325-334: the mean lines are read for the random benchmarks only
ScanMeans(st, line, kind, N) ==
    IF kind # "random" THEN st
    ELSE LET s1 == ScanMean(st, line, "CE", "mean_y_ce", N)
         IN  IF s1.state # "ok" THEN s1 ELSE ScanMean(s1, line, "AO", "mean_y_ao", N)

\* lines 303-334: the body of the loop over the lines of the report
ScanLine(st, line, kind, N) ==
    LET s1 == ScanVariable(st, line, kind, N)
        s2 == IF s1.state # "ok" THEN s1 ELSE ScanTimes(s1, line, "CE", "y_ce", N)
        s3 == IF s2.state # "ok" THEN s2 ELSE ScanTimes(s2, line, "AO", "y_ao", N)
    IN  IF s3.state # "ok" THEN s3 ELSE ScanMeans(s3, line, kind, N)

\* lines 293-334
RECURSIVE ScanLines(_, _, _, _, _)
ScanLines(st, lines, k, kind, N) ==
    IF k > Len(lines) \/ st.state # "ok" THEN st
    ELSE ScanLines(ScanLine(st, lines[k], kind, N), lines, k + 1, kind, N)

ScanStart ==
    [state |-> "ok", x |-> <<>>, y_ce |-> <<>>, y_ao |-> <<>>,
     mean_y_ce |-> <<>>, mean_y_ao |-> <<>>]

\* lines 338, 343, 348: the header line of the dataset
Header(kind) ==
    IF kind = "intersection_vertices"
    THEN <<Line(<<"nbr_vertices", "CE_time", "AO_time">>, <<>>)>>
    ELSE IF kind = "intersection_objectives"
    THEN <<Line(<<"nbr_objectives", "CE_time", "AO_time">>, <<>>)>>
    ELSE IF kind = "random"
    THEN <<Line(<<"nbr_objectives", "CE_time", "AO_time", "mean_CE_time", "mean_AO_time">>,
                <<>>)>>
    ELSE <<>>

\* the series a row of the dataset reads besides x
RowFields(kind) ==
    IF kind = "random" THEN <<"y_ce", "y_ao", "mean_y_ce", "mean_y_ao">>
    ELSE IF kind \in Kinds THEN <<"y_ce", "y_ao">>
    ELSE <<>>

\* lines 339-340, 344-345, 349-351: the number of rows written before the
\* loop ends or an index is out of range
RowsWritable(st, kind) ==
    LET short == {k \in 1..Len(st.x) :
                     \E f \in 1..Len(RowFields(kind)) : Len(st[RowFields(kind)[f]]) < k}
    IN  IF kind \notin Kinds THEN 0
        ELSE IF short = {} THEN Len(st.x)
        ELSE (CHOOSE k \in short : \A k2 \in short : k <= k2) - 1

Row(st, kind, k) ==
    Line(<<>>, <<Num("int", st.x[k], "", "")>>
               \o [f \in 1..Len(RowFields(kind)) |-> st[RowFields(kind)[f]][k]])

\* WriteDataset with loops that stop at the end of the shortest series
WriteDataset_Truncating(st, kind) ==
    LET r == RowsWritable(st, kind)
    IN  [state |-> "done",
         out |-> Header(kind) \o [k \in 1..r |-> Row(st, kind, k)]]

\* lines 336-353: what parse_results appends to save_file and how it ends
WriteDataset(st, kind) ==
    LET r == RowsWritable(st, kind)
    IN  [state |-> IF kind \in Kinds /\ r < Len(st.x) THEN "IndexError" ELSE "done",
         out |-> Header(kind) \o [k \in 1..r |-> Row(st, kind, k)]]

FinishParse(st, kind) ==
    IF st.state # "ok" THEN st @@ [out |-> <<>>]
    ELSE LET w == WriteDataset(st, kind)
         IN  [st EXCEPT !.state = w.state] @@ [out |-> w.out]

\* parse_results(file_name, benchmark_type, nbr_points, save_file)
ParseResultsOf(exists, lines, kind, N) ==
    IF ~exists THEN [ScanStart EXCEPT !.state = "FileNotFoundError"] @@ [out |-> <<>>]
    ELSE FinishParse(ScanLines(ScanStart, lines, 1, kind, N), kind)
\* --------------------------------------------------------- table generator
\* lines 370-376: the labels of dict_pattern, in insertion order
Patterns ==
    << <<"Mean", "antichain", "size">>,
       <<"Mean", "number", "losing", "payoffs">>,
       <<"Mean", "number", "realizable", "payoffs">>,
       <<"CE", "mean", "antichain", "size">>,
       <<"AO", "mean", "antichain", "size">> >>

LosingPattern == 2
RealizablePattern == 3

\* lines 378-382: the labels of dict_pattern_names, in insertion order
DisplayedPatterns == <<1, 4, 5>>

\* words of the report of which another word of the report is a proper
\* prefix: <<prefix, word, rest of the word>>
ProperPrefixes == { <<"size", "sizes", "s">> }

StartsWith(word, w) ==
    word = w \/ \E pp \in ProperPrefixes : pp[1] = w /\ pp[2] = word

\* the pattern, a substring of the line's text, starts in word p
OccursAt(line, pat, p) ==
    /\ line.lab[p] = pat[1]
    /\ \A k \in 2..Len(pat) :
          IF k = Len(pat) THEN StartsWith(line.lab[p + k - 1], pat[k])
          ELSE line.lab[p + k - 1] = pat[k]

\* the text after the occurrence of the pattern that starts in word p
After(line, pat, p) ==
    LET last == line.lab[p + Len(pat) - 1]
        rest == SubSeq(line.lab, p + Len(pat), Len(line.lab))
    IN  IF last = pat[Len(pat)] THEN Line(rest, line.val)
        ELSE Line(<<(CHOOSE pp \in ProperPrefixes :
                        pp[1] = pat[Len(pat)] /\ pp[2] = last)[3]>> \o rest, line.val)

\* lines 390-392: line.rstrip().split(pattern) has two parts exactly when the
\* pattern occurs once
Occurrences(line, pat) ==
    {p \in 1..(Len(line.lab) - Len(pat) + 1) : OccursAt(line, pat, p)}

SplitsInTwo(line, pat) == Cardinality(Occurrences(line, pat)) = 1

\* line[1] of the split
SecondPart(line, pat) == After(line, pat, CHOOSE p \in Occurrences(line, pat) : TRUE)

\* lines 386-393: the second parts, in file order
Extract(lines, pat) ==
    LET hits == SelectSeq(lines, LAMBDA l : SplitsInTwo(l, pat))
    IN  [k \in 1..Len(hits) |-> SecondPart(hits[k], pat)]

\* ExtractReversed without the reversed() of line 395
ExtractReversed_InOrder(lines, pat) == Extract(lines, pat)

\* line 395
ExtractReversed(lines, pat) == Reverse(Extract(lines, pat))

\* float(text) succeeds on the text of one number
IsFloatText(cell) ==
    /\ cell.lab = <<>>
    /\ Len(cell.val) = 1
    /\ IsNumberTok(cell.val[1])
    /\ KindOf(cell.val[1]).pre = "" /\ KindOf(cell.val[1]).post = ""

FloatOf(cell) == ToFloat(Value(cell.val[1]))[1]

\* "%.3f" % (a / b), a and b in thousandths, result in thousandths
Ratio3(a, b) == RoundHalfEven(1000 * a, b)

\* lines 411-417: the cells of the ratio row printed before the row ends or
\* fails, and how it ends
RatioRow(losing, realizable) ==
    LET n == Len(realizable)
        bad(k) == IF k > Len(losing) THEN "IndexError"
                  ELSE IF ~IsFloatText(losing[k]) \/ ~IsFloatText(realizable[k])
                       THEN "ValueError"
                  ELSE IF FloatOf(realizable[k]) = 0 THEN "ZeroDivisionError"
                  ELSE "ok"
        fails == {k \in 1..n : bad(k) # "ok"}
        first == IF fails = {} THEN n + 1
                 ELSE CHOOSE k \in fails : \A k2 \in fails : k <= k2
    IN  IF n = 0 THEN [state |-> "IndexError", cells |-> <<>>]
        ELSE [state |-> IF fails = {} THEN "done" ELSE bad(first),
              cells |-> [k \in 1..(first - 1) |->
                            Ratio3(FloatOf(losing[k]), FloatOf(realizable[k]))]]

\* lines 397-417: header holds the column numbers printed, rows the printed
\* series, ratio the last row; ser is dict_pattern after the scan
PrintTables(ser) ==
    LET n == Len(ser[RealizablePattern])
        header == IF n = 0 THEN <<0>> ELSE [k \in 1..n |-> k]
        empty == {d \in 1..Len(DisplayedPatterns) : ser[DisplayedPatterns[d]] = <<>>}
        shown == IF empty = {} THEN Len(DisplayedPatterns)
                 ELSE (CHOOSE d \in empty : \A d2 \in empty : d <= d2) - 1
        rows == [d \in 1..shown |-> ser[DisplayedPatterns[d]]]
        rr == RatioRow(ser[LosingPattern], ser[RealizablePattern])
    IN  IF empty # {}
        THEN [state |-> "IndexError", series |-> ser, header |-> header,
              rows |-> rows, ratio |-> <<>>]
        ELSE [state |-> rr.state, series |-> ser, header |-> header,
              rows |-> rows, ratio |-> rr.cells]

\* generate_tables(file_name)
GenerateTablesOf(exists, lines) ==
    IF ~exists
    THEN [state |-> "FileNotFoundError", series |-> <<>>, header |-> <<>>,
          rows |-> <<>>, ratio |-> <<>>]
    ELSE PrintTables([q \in 1..Len(Patterns) |-> ExtractReversed(lines, Patterns[q])])
\* ------------------------------------------------------------------- state
VARIABLES
    benchmark_type, parameters, nbr_points,     \* arguments of run_benchmark
    range_start, range_end, range_step,
    pc, err,            \* position in run_benchmark and the exception raised
    sweep, pos,         \* list(range(...)) and the index in it of i
    j,                  \* trial index
    series,             \* the 21 lists of the current sweep value
    nbr,                \* number of objectives of the last instance
    aut, inst,          \* the instance of the current trial and its number
    calls,              \* history of the calls to the provider and adapters
    report, reportExists, reportOpen,   \* save_file and the handle f
    g,                  \* next group of f.write calls
    pre, opens, completed,  \* history: initial content, number of opens,
                            \* sweep values whose trials all completed
    parsed, dat,        \* result of parse_results and the dataset file
    table               \* result of generate_tables

vars == << benchmark_type, parameters, nbr_points, range_start, range_end,
           range_step, pc, err, sweep, pos, j, series, nbr, aut, inst, calls,
           report, reportExists, reportOpen, g, pre, opens, completed,
           parsed, dat, table >>

inputs == << benchmark_type, parameters, nbr_points, range_start, range_end,
             range_step, pre >>
readers == << parsed, dat, table >>

\* a bool held as 1/0 in parameters
PyBool(v) == v = 1

\* parameters in the format the docstring gives for each benchmark type
ParametersFor(kind, positivity) ==
    IF kind = "random" THEN <<500, 200, 200, 100, positivity>>
    ELSE <<positivity>>

\* lines 101, 105, 110
GenPositivity(kind, p) == IF kind = "random" THEN PyBool(p[5]) ELSE PyBool(p[1])

\* Request with str(i) where line 100 has str(j)
Request_ValueAsLabel(kind, p, i, jj) ==
    IF kind = "random"
    THEN [fn |-> "random_automaton", args |-> <<p[1], p[2], i, p[3], p[4], p[5], i>>]
    ELSE IF kind = "intersection_vertices"
    THEN [fn |-> "intersection_example",
          args |-> <<i, IF PyBool(p[1]) THEN 0 ELSE 1>>]
    ELSE [fn |-> "intersection_example_objective_increase",
          args |-> <<i, IF PyBool(p[1]) THEN 0 ELSE 1>>]

\* lines 99-100, 104, 108-109: the arguments passed to the generator
Request(kind, p, i, jj) ==
    IF kind = "random"
    THEN [fn |-> "random_automaton", args |-> <<p[1], p[2], i, p[3], p[4], p[5], jj>>]
    ELSE IF kind = "intersection_vertices"
    THEN [fn |-> "intersection_example",
          args |-> <<i, IF PyBool(p[1]) THEN 0 ELSE 1>>]
    ELSE [fn |-> "intersection_example_objective_increase",
          args |-> <<i, IF PyBool(p[1]) THEN 0 ELSE 1>>]

NoRequest == [fn |-> "", args |-> <<>>]

NoInstance == [nbr |-> 0, stats |-> <<>>, ce |-> <<>>, ao |-> <<>>]

\* the series of one trial of an earlier run
OldSeries ==
    LET a == CHOOSE x \in Instances : x.nbr = 2
    IN  AppendAOTimes(AppendCETimes(AppendStats(EmptySeries, a.stats), a.ce), a.ao)

OldBlock == BlockLines(1, <<1>>, 2, OldSeries)

\* contents save_file may have before the call: nothing, a complete block of
\* an earlier run with one trial, and blocks of which lines are missing
PreContents ==
    { <<>>,
      OldBlock,
      SubSeq(OldBlock, 1, 1),
      SelectSeq(OldBlock, LAMBDA l : MatchLabel(l, <<"Variable">>) # "yes"),
      SelectSeq(OldBlock, LAMBDA l : MatchLabel(l, <<"Mean", "running">>) # "yes") }

Idle == [state |-> "idle"]

Init ==
    /\ benchmark_type \in BenchmarkTypes
    /\ \E positivity \in {0, 1} :
          parameters = ParametersFor(benchmark_type, positivity)
    /\ nbr_points \in 1..MaxPoints
    /\ range_start \in 1..MaxValue
    /\ range_end \in {1, MaxValue}
    /\ range_step \in Steps
    /\ range_step # 0 =>
          nbr_points * Len(PyRange(range_start, range_end, range_step)) <= MaxTrials
    /\ pre \in PreContents
    /\ reportExists \in IF pre = <<>> THEN BOOLEAN ELSE {TRUE}
    /\ report = pre
    /\ reportOpen = FALSE
    /\ pc = "start" /\ err = "none"
    /\ sweep = <<>> /\ pos = 0 /\ j = 0
    /\ series = EmptySeries
    /\ nbr = 0 /\ inst = 0 /\ aut = NoInstance
    /\ calls = <<>>
    /\ g = 0 /\ opens = 0 /\ completed = <<>>
    /\ parsed = Idle /\ dat = <<>> /\ table = Idle

\* -------------------------------------------------------------- run_benchmark
\* line 63: list(range(range_start, range_end, range_step))
Call ==
    /\ pc = "start"
    /\ IF range_step = 0
       THEN pc' = "error" /\ err' = "ValueError" /\ sweep' = sweep
       ELSE /\ sweep' = PyRange(range_start, range_end, range_step)
            /\ pc' = "loop" /\ err' = err
    /\ UNCHANGED << inputs, pos, j, series, nbr, aut, inst, calls, report, reportExists,
                    reportOpen, g, opens, completed, readers >>

\* NextValue without the fresh lists of lines 66-91
NextValue_KeepLists ==
    /\ pc = "loop"
    /\ IF pos = Len(sweep)
       THEN pc' = "done" /\ UNCHANGED << pos, j, series >>
       ELSE /\ pos' = pos + 1
            /\ series' = series
            /\ j' = 1
            /\ pc' = IF nbr_points >= 1 THEN "trial" ELSE "open"
    /\ UNCHANGED << inputs, err, sweep, nbr, aut, inst, calls, report, reportExists,
                    reportOpen, g, opens, completed, readers >>

\* lines 63-93: the next sweep value, with fresh lists, or the end of the call
NextValue ==
    /\ pc = "loop"
    /\ IF pos = Len(sweep)
       THEN pc' = "done" /\ UNCHANGED << pos, j, series >>
       ELSE /\ pos' = pos + 1
            /\ series' = EmptySeries
            /\ j' = 1
            /\ pc' = IF nbr_points >= 1 THEN "trial" ELSE "open"
    /\ UNCHANGED << inputs, err, sweep, nbr, aut, inst, calls, report, reportExists,
                    reportOpen, g, opens, completed, readers >>

\* Provide followed by the antichain optimization adapter
Provide_SkipCE ==
    /\ pc = "trial"
    /\ IF benchmark_type \notin Kinds
       THEN /\ pc' = "error" /\ err' = "BenchmarkNotSupportedError"
            /\ UNCHANGED << series, nbr, aut, inst, calls >>
       ELSE \E b \in Instances :
            /\ series' = AppendStats(series, b.stats)
            /\ nbr' = b.nbr
            /\ aut' = b
            /\ inst' = inst + 1
            /\ calls' = Append(calls,
                  [op |-> "provide", i |-> sweep[pos], j |-> j, inst |-> inst + 1,
                   req |-> Request(benchmark_type, parameters, sweep[pos], j),
                   ans |-> TRUE])
            /\ pc' = "ao" /\ err' = err
    /\ UNCHANGED << inputs, sweep, pos, j, report, reportExists, reportOpen, g,
                    opens, completed, readers >>

\* lines 95-134: the instance of trial j and its statistics
Provide ==
    /\ pc = "trial"
    /\ IF benchmark_type \notin Kinds
       THEN /\ pc' = "error" /\ err' = "BenchmarkNotSupportedError"
            /\ UNCHANGED << series, nbr, aut, inst, calls >>
       ELSE \E b \in Instances :
            /\ series' = AppendStats(series, b.stats)
            /\ nbr' = b.nbr
            /\ aut' = b
            /\ inst' = inst + 1
            /\ calls' = Append(calls,
                  [op |-> "provide", i |-> sweep[pos], j |-> j, inst |-> inst + 1,
                   req |-> Request(benchmark_type, parameters, sweep[pos], j),
                   ans |-> TRUE])
            /\ pc' = "ce" /\ err' = err
    /\ UNCHANGED << inputs, sweep, pos, j, report, reportExists, reportOpen, g,
                    opens, completed, readers >>

\* RunCE without the assert of line 148
RunCE_NoAssert ==
    /\ pc = "ce"
    /\ \E positivity \in BOOLEAN :
          /\ calls' = Append(calls,
                [op |-> "counterexample_based_algorithm", i |-> sweep[pos], j |-> j,
                 inst |-> inst, req |-> NoRequest, ans |-> positivity])
          /\ series' = AppendCETimes(series, aut.ce)
          /\ pc' = "ao" /\ err' = err
    /\ UNCHANGED << inputs, sweep, pos, j, nbr, aut, inst, report, reportExists,
                    reportOpen, g, opens, completed, readers >>

\* lines 136-152: the counterexample adapter, timed and checked
RunCE ==
    /\ pc = "ce"
    /\ \E positivity \in BOOLEAN :
          /\ calls' = Append(calls,
                [op |-> "counterexample_based_algorithm", i |-> sweep[pos], j |-> j,
                 inst |-> inst, req |-> NoRequest, ans |-> positivity])
          /\ IF positivity = GenPositivity(benchmark_type, parameters)
             THEN /\ series' = AppendCETimes(series, aut.ce)
                  /\ pc' = "ao" /\ err' = err
             ELSE /\ pc' = "error" /\ err' = "AssertionError"
                  /\ series' = series
    /\ UNCHANGED << inputs, sweep, pos, j, nbr, aut, inst, report, reportExists,
                    reportOpen, g, opens, completed, readers >>

\* lines 154-194: the antichain optimization adapter, timed and checked; the
\* end of trial j
RunAO ==
    /\ pc = "ao"
    /\ \E positivity \in BOOLEAN :
          /\ calls' = Append(calls,
                [op |-> "antichain_optimization_algorithm", i |-> sweep[pos], j |-> j,
                 inst |-> inst, req |-> NoRequest, ans |-> positivity])
          /\ IF positivity = GenPositivity(benchmark_type, parameters)
             THEN /\ series' = AppendAOTimes(series, aut.ao)
                  /\ j' = j + 1
                  /\ pc' = IF j = nbr_points THEN "open" ELSE "trial"
                  /\ completed' = IF j = nbr_points
                                  THEN Append(completed,
                                         [i |-> sweep[pos], nbr |-> nbr,
                                          series |-> AppendAOTimes(series, aut.ao)])
                                  ELSE completed
                  /\ err' = err
             ELSE /\ pc' = "error" /\ err' = "AssertionError"
                  /\ UNCHANGED << series, j, completed >>
    /\ UNCHANGED << inputs, sweep, pos, nbr, aut, inst, report, reportExists,
                    reportOpen, g, opens, readers >>

\* OpenReport with mode "w" in place of "a"
OpenReport_Truncate ==
    /\ pc = "open"
    /\ reportExists' = TRUE
    /\ reportOpen' = TRUE
    /\ opens' = opens + 1
    /\ g' = 1
    /\ pc' = "write"
    /\ report' = <<>>
    /\ UNCHANGED << inputs, err, sweep, pos, j, series, nbr, aut, inst, calls,
                    completed, readers >>

\* line 196: f = open(save_file, "a")
OpenReport ==
    /\ pc = "open"
    /\ reportExists' = TRUE
    /\ reportOpen' = TRUE
    /\ opens' = opens + 1
    /\ g' = 1
    /\ pc' = "write"
    /\ UNCHANGED << inputs, err, sweep, pos, j, series, nbr, aut, inst, calls, report,
                    completed, readers >>

\* lines 198-259: one group of f.write calls
WriteGroup ==
    /\ pc = "write"
    /\ report' = report \o GroupLines(g, sweep[pos], parameters, nbr, series)
    /\ g' = g + 1
    /\ pc' = IF g = NGroups THEN "close" ELSE "write"
    /\ UNCHANGED << inputs, err, sweep, pos, j, series, nbr, aut, inst, calls,
                    reportExists, reportOpen, opens, completed, readers >>

\* line 261: f.close()
CloseReport ==
    /\ pc = "close"
    /\ reportOpen' = FALSE
    /\ pc' = "loop"
    /\ UNCHANGED << inputs, err, sweep, pos, j, series, nbr, aut, inst, calls, report,
                    reportExists, g, opens, completed, readers >>

\* --------------------------------------------------------------- the readers
\* parse_results(save_file of the run, benchmark_type, nbr_points, fresh file)
ParseResults ==
    /\ pc = "done"
    /\ parsed = Idle
    /\ \E r \in {ParseResultsOf(reportExists, report, benchmark_type, nbr_points)} :
           /\ parsed' = [state |-> r.state, x |-> r.x, y_ce |-> r.y_ce, y_ao |-> r.y_ao,
                         mean_y_ce |-> r.mean_y_ce, mean_y_ao |-> r.mean_y_ao]
           /\ dat' = dat \o r.out
    /\ UNCHANGED << inputs, pc, err, sweep, pos, j, series, nbr, aut, inst, calls, report,
                    reportExists, reportOpen, g, opens, completed, table >>

\* generate_tables(save_file of the run), called after parse_results
GenerateTables ==
    /\ parsed # Idle
    /\ table = Idle
    /\ \E r \in {GenerateTablesOf(reportExists, report)} : table' = r
    /\ UNCHANGED << inputs, pc, err, sweep, pos, j, series, nbr, aut, inst, calls, report,
                    reportExists, reportOpen, g, opens, completed, parsed, dat >>

Next ==
    \/ Call
    \/ NextValue
    \/ Provide
    \/ RunCE
    \/ RunAO
    \/ OpenReport
    \/ WriteGroup
    \/ CloseReport
    \/ ParseResults
    \/ GenerateTables

Spec == Init /\ [][Next]_vars

\* ----------------------------------------------------------------- claims
TypeOK ==
    /\ pc \in {"start", "loop", "trial", "ce", "ao", "open", "write", "close",
               "done", "error"}
    /\ DOMAIN series = SeriesNames
    /\ benchmark_type \in BenchmarkTypes

Ended == pc \in {"done", "error"}

Expected == GenPositivity(benchmark_type, parameters)

IsAdapterCall(c) == c.op # "provide"

Mismatch(c) == IsAdapterCall(c) /\ c.ans # Expected

IsPrefix(s, t) == Len(s) <= Len(t) /\ SubSeq(t, 1, Len(s)) = s

\* the blocks of the sweep values whose trials all completed, in sweep order
CompletedBlocks ==
    Flatten([k \in 1..Len(completed) |->
                BlockLines(completed[k].i, parameters, completed[k].nbr,
                           completed[k].series)])

\* C1: a call of run_benchmark with an unsupported benchmark_type (and a
\* valid range, of step # 0) ends with BenchmarkNotSupportedError, before any
\* instance is requested, before any adapter runs and with nothing written
\* to the report file.
C1_UnsupportedFailsFast ==
    (benchmark_type \notin Kinds /\ range_step # 0 /\ Ended) =>
        /\ pc = "error" /\ err = "BenchmarkNotSupportedError"
        /\ calls = <<>>
        /\ report = pre /\ opens = 0

\* C2: an adapter answer different from gen_positivity aborts the sweep on
\* the spot: the mismatching call is the last call ever made (so the
\* antichain optimization adapter does not run after a counterexample
\* mismatch), run_benchmark has ended with the AssertionError, no trial or
\* sweep value starts afterwards and the report holds no block for the
\* current sweep value; an answer equal to gen_positivity lets the trial go
\* on (CE to AO, AO to the next trial or to the report block).
C2_AbortState ==
    /\ \A k \in 1..Len(calls) :
          Mismatch(calls[k]) => k = Len(calls) /\ pc = "error" /\ err = "AssertionError"
    /\ err = "AssertionError" =>
          /\ pc = "error" /\ calls # <<>> /\ Mismatch(calls[Len(calls)])
          /\ Len(report) = Len(pre) + Len(OldBlock) * (pos - 1)
          /\ opens = pos - 1 /\ ~reportOpen

C2_AbortStep ==
    /\ pc = "error" => UNCHANGED << pc, err, pos, j, calls, report, opens, series >>
    /\ (pc = "ce" /\ pc' # pc /\ ~Mismatch(calls'[Len(calls')])) => pc' = "ao"
    /\ (pc = "ao" /\ pc' # pc /\ ~Mismatch(calls'[Len(calls')])) =>
          /\ pc' = IF j = nbr_points THEN "open" ELSE "trial"
          /\ j' = j + 1
    /\ (pc \in {"ce", "ao"} /\ pc' # pc /\ Mismatch(calls'[Len(calls')])) =>
          pc' = "error" /\ err' = "AssertionError" /\ report' = report

C2_MismatchAborts == []C2_AbortState /\ [][C2_AbortStep]_vars

\* a counterexample mismatch in the second trial of a sweep, after a first
\* trial both adapters passed
C2_Witness ==
    /\ err = "AssertionError"
    /\ Len(calls) = 5
    /\ calls[5].op = "counterexample_based_algorithm"
    /\ ~Mismatch(calls[2]) /\ ~Mismatch(calls[3])

\* C3: when run_benchmark starts computing the means and writing the block of
\* a sweep value, and until the block is written, each of the 15 statistic
\* series and of the 6 timing series has exactly nbr_points entries; at the
\* start of the first trial of every sweep value all of them are empty.
C3_SeriesLengths ==
    /\ Cardinality(StatNames) = 15
    /\ Cardinality(CETimeNames \cup AOTimeNames) = 6
    /\ pc \in {"open", "write", "close"} =>
          \A name \in SeriesNames : Len(series[name]) = nbr_points
    /\ (pc = "trial" /\ j = 1) => \A name \in SeriesNames : series[name] = <<>>
    /\ pc = "trial" => \A name \in SeriesNames : Len(series[name]) = j - 1

\* the block of the second sweep value is about to be written, two trials each
C3_Witness ==
    /\ pc = "open" /\ pos = 2 /\ nbr_points = 2
    /\ Len(series.counterexample_times_process) = 2

\* C4: the calls happen in strict program order: for each sweep value in
\* sweep order and each trial 1..nbr_points in order, one request to the
\* instance provider, then the counterexample adapter, then the antichain
\* optimization adapter, both on the instance of that trial; every adapter
\* answer is compared with gen_positivity on its own (a call follows an
\* adapter call only if that answer was the expected one).
C4_ProgramOrder ==
    /\ \A k \in 1..Len(calls) :
          LET c == calls[k]
              t == (k - 1) \div 3
          IN  /\ c.op = << "provide", "counterexample_based_algorithm",
                           "antichain_optimization_algorithm" >>[((k - 1) % 3) + 1]
              /\ c.inst = t + 1
              /\ c.i = sweep[(t \div nbr_points) + 1]
              /\ c.j = (t % nbr_points) + 1
              /\ k < Len(calls) => ~Mismatch(c)
    /\ inst = (Len(calls) + 2) \div 3
    /\ pc = "ce" => Len(calls) % 3 = 1
    /\ pc = "ao" => Len(calls) % 3 = 2
    /\ pc \in {"trial", "open", "write", "close", "loop", "done"} => Len(calls) % 3 = 0

\* both trials of the first sweep value and the first of the second are over
C4_Witness ==
    /\ Len(calls) = 9 /\ nbr_points = 2 /\ pos = 2
    /\ calls[9].op = "antichain_optimization_algorithm" /\ calls[9].inst = 3

\* C5: the report is append-only and grows by one whole block per sweep
\* value: between sweep values, at the end of the call and after an abort it
\* is the initial content followed by the blocks of the sweep values whose
\* trials all completed, in sweep order; no step changes or removes a line
\* already in the file; the file is opened once per sweep value, after that
\* value's nbr_points trials, and closed before the next value starts.
C5_ReportState ==
    /\ IsPrefix(pre, report)
    /\ \A k \in 1..Len(completed) : completed[k].i = sweep[k]
    /\ pc \in {"loop", "done", "error"} =>
          /\ report = pre \o CompletedBlocks
          /\ ~reportOpen
          /\ opens = Len(completed)
    /\ reportOpen <=> pc \in {"write", "close"}

C5_ReportStep ==
    /\ IsPrefix(report, report')
    /\ report' # report => reportOpen /\ reportOpen'
    /\ opens' # opens =>
          /\ opens' = opens + 1
          /\ Len(completed) = opens'
          /\ \A name \in SeriesNames : Len(series[name]) = nbr_points

C5_AppendOnly == []C5_ReportState /\ [][C5_ReportStep]_vars

\* an abort in the second sweep value, the file holding content older than
\* the call and the block of the first value
C5_Witness ==
    /\ pc = "error" /\ err = "AssertionError"
    /\ pre # <<>> /\ Len(completed) = 1 /\ pos = 2
    /\ Len(report) = Len(pre) + Len(OldBlock)

\* the lines run_benchmark appended during the call
Appended == SubSeq(report, Len(pre) + 1, Len(report))

\* the positions of app where a run of blank lines starts
BlankRunStarts(app) ==
    {k \in 1..Len(app) : app[k] = BlankLine /\ (k = 1 \/ app[k - 1] # BlankLine)}

\* the number of blank lines of the run of app that starts at position k
BlankRunLength(app, k) ==
    LET after == {m \in k..Len(app) : app[m] # BlankLine}
    IN  IF after = {} THEN Len(app) - k + 1
        ELSE (CHOOSE m \in after : \A m2 \in after : m <= m2) - k

NonBlank(lines) == SelectSeq(lines, LAMBDA l : l # BlankLine)

\* the labels of the label-value lines of one block, in order
LabelsOf(lines) == [k \in 1..Len(lines) |-> lines[k].lab]

\* app is made of Len(completed) blocks: each the fixed sequence of
\* label-value lines, the first holding the sweep value, then n blank lines
FixedBlocks(app, n) ==
    \E nb \in {NonBlank(app)} : \E starts \in {BlankRunStarts(app)} :
    \E old \in {NonBlank(OldBlock)} : \E labels \in {LabelsOf(old)} :
        /\ Cardinality(starts) = Len(completed)
        /\ app[Len(app)] = BlankLine
        /\ Len(labels) = 41
        /\ Len(nb) = Len(labels) * Len(completed)
        /\ \A k \in 1..Len(nb) :
              /\ nb[k].lab = labels[((k - 1) % Len(labels)) + 1]
              /\ nb[k].val # <<>>
        /\ \A k \in starts :
              /\ k > 1 /\ app[k - 1].lab = labels[Len(labels)]
              /\ BlankRunLength(app, k) = n
        /\ \A k \in 1..Len(completed) :
              nb[(k - 1) * Len(labels) + 1].val = <<Num("int", completed[k].i, "", "")>>

BlocksWritten == pc \in {"loop", "done"} /\ completed # <<>>

\* C6 as stated: every block run_benchmark appends is the fixed sequence of
\* label-value lines followed by exactly two blank lines, so two consecutive
\* blocks are separated by exactly two blank lines.
C6_TwoBlankLines == BlocksWritten => \E app \in {Appended} : FixedBlocks(app, 2)

\* C6 amended: every block run_benchmark appends is the fixed sequence of 41
\* label-value lines followed by exactly three blank lines, so two
\* consecutive blocks are separated by exactly three blank lines.
C6_ThreeBlankLines == BlocksWritten => \E app \in {Appended} : FixedBlocks(app, 3)

\* two blocks appended after older content
C6_Witness ==
    /\ pc = "done" /\ Len(completed) = 2 /\ pre # <<>>
    /\ Cardinality(BlankRunStarts(Appended)) = 2

\* the report holds nothing but what this call of run_benchmark wrote
FreshReport == pre = <<>> /\ reportExists

XOf(i) == IF benchmark_type = "intersection_objectives" THEN 2 + 2 * i ELSE i

\* C7: parse_results, on the report run_benchmark wrote into a fresh file
\* over range(start, end, step) with N trials, same kind and N, writing to a
\* fresh dataset file, completes and writes one header line and exactly
\* N * len(range(start, end, step)) rows, whose first column is, in sweep
\* order, each value i of the range N times: i itself for random and
\* intersection_vertices, 2 + 2 * i for intersection_objectives.
C7_DatasetRows ==
    (parsed # Idle /\ FreshReport /\ benchmark_type \in Kinds) =>
        /\ parsed.state = "done"
        /\ sweep = PyRange(range_start, range_end, range_step)
        /\ Len(dat) = 1 + nbr_points * Len(sweep)
        /\ dat[1].lab # <<>> /\ dat[1].val = <<>>
        /\ \A r \in 1..(nbr_points * Len(sweep)) :
              /\ dat[1 + r].lab = <<>>
              /\ dat[1 + r].val[1]
                    = Num("int", XOf(sweep[((r - 1) \div nbr_points) + 1]), "", "")

\* a descending sweep of two values, two trials each, x transformed
C7_Witness ==
    /\ parsed # Idle /\ parsed.state = "done" /\ FreshReport
    /\ benchmark_type = "intersection_objectives"
    /\ range_step < 0 /\ Len(sweep) = 2 /\ nbr_points = 2
    /\ Len(dat) = 5
    /\ dat[2].val[1][1] = 2 + 2 * range_start

CountLabel(ws) == Len(SelectSeq(report, LAMBDA l : l.lab = ws))

VariableLabel == <<"Variable", "value", "used">>

\* the label whose lines fill each series parse_results writes besides x
SeriesLabel(f) ==
    CASE f = "y_ce" -> <<"CE", "times", "process">>
      [] f = "y_ao" -> <<"AO", "times", "process">>
      [] f = "mean_y_ce" -> <<"Mean", "running", "time", "CE">>
      [] f = "mean_y_ao" -> <<"Mean", "running", "time", "AO">>

WrittenFields == {RowFields(benchmark_type)[k] : k \in 1..Len(RowFields(benchmark_type))}

\* the report is made of lines run_benchmark writes with nbr_points trials
\* (its timing lists have nbr_points entries) but lines may be missing
SameTrials ==
    \A k \in 1..Len(report) :
        report[k].lab \in {SeriesLabel("y_ce"), SeriesLabel("y_ao")} =>
            Len(report[k].val) = nbr_points

\* some label parse_results reads occurs less often than another
LacksLabelLine ==
    \E f \in WrittenFields : CountLabel(SeriesLabel(f)) # CountLabel(VariableLabel)

ParsedReport == parsed # Idle /\ reportExists /\ benchmark_type \in Kinds /\ SameTrials

\* C8 as stated: when the report lacks an expected label line for some
\* block, parse_results raises no error and completes.
C8_NoErrorOnMissingLine ==
    (ParsedReport /\ LacksLabelLine) => parsed.state = "done"

\* C8 amended: when the report lacks label lines, the series collected are
\* just shorter, with no padding (nbr_points entries per label line present);
\* parse_results completes, writing len(x) rows, exactly when no series it
\* writes is shorter than x, and otherwise ends with an IndexError raised
\* while the rows are written.
C8_ShorterSeries ==
    ParsedReport =>
        LET short == \E f \in WrittenFields : Len(parsed[f]) < Len(parsed.x)
        IN  /\ Len(parsed.x) = nbr_points * CountLabel(VariableLabel)
            /\ \A f \in WrittenFields :
                  Len(parsed[f]) = nbr_points * CountLabel(SeriesLabel(f))
            /\ parsed.state = (IF short THEN "IndexError" ELSE "done")
            /\ ~short => Len(dat) = 1 + Len(parsed.x)
            /\ short => Len(dat) <= Len(parsed.x)

\* a "Variable value used" line without its "CE times process" line
C8_Witness ==
    /\ ParsedReport /\ LacksLabelLine
    /\ CountLabel(VariableLabel) > CountLabel(SeriesLabel("y_ce"))
    /\ parsed.state = "IndexError"
    /\ Len(parsed.y_ce) < Len(parsed.x)

\* the values that follow label q of generate_tables, in file order
CellsOf(q) ==
    LET hits == SelectSeq(report, LAMBDA l : l.lab = Patterns[q])
    IN  [k \in 1..Len(hits) |-> Line(<<>>, hits[k].val)]

Thousandths(cell) == cell.val[1][1]

\* C9: each of the five series generate_tables extracts is the values that
\* follow its label in the report in reverse file order (column c holds the
\* value of the c-th last occurrence); the rows displayed are three of these
\* series, and column c of the ratio row is losing[c] / realizable[c] of the
\* reversed series.
C9_ReverseFileOrder ==
    (table # Idle /\ reportExists) =>
        /\ Len(table.series) = 5
        /\ \A q \in 1..5 :
              /\ Len(table.series[q]) = Len(CellsOf(q))
              /\ \A c \in 1..Len(CellsOf(q)) :
                    table.series[q][c] = CellsOf(q)[Len(CellsOf(q)) - c + 1]
        /\ \A d \in 1..Len(table.rows) :
              table.rows[d] = table.series[DisplayedPatterns[d]]
        /\ \A c \in 1..Len(table.ratio) :
              table.ratio[c] =
                  Ratio3(Thousandths(CellsOf(LosingPattern)[Len(CellsOf(LosingPattern)) - c + 1]),
                         Thousandths(CellsOf(RealizablePattern)
                                        [Len(CellsOf(RealizablePattern)) - c + 1]))
        /\ table.state = "done" =>
              /\ Len(table.rows) = 3
              /\ Len(table.ratio) = Len(CellsOf(RealizablePattern))

\* two blocks whose mean antichain sizes and ratios differ
C9_Witness ==
    /\ table # Idle /\ table.state = "done"
    /\ Len(CellsOf(1)) = 2
    /\ CellsOf(1)[1] # CellsOf(1)[2]
    /\ table.rows[1][1] = CellsOf(1)[2]
    /\ Len(table.ratio) = 2 /\ table.ratio[1] # table.ratio[2]

\* C10: for the random kind, parse_results on the report run_benchmark wrote
\* with the same N collects five series of the same length, and the
\* mean_CE_time and mean_AO_time columns of each row hold the mean CE and AO
\* process time of the block of the row's x value, the same on the N rows of
\* the block; for the two intersection kinds the mean series stay empty and
\* the dataset has three columns.
C10_MeanColumns ==
    (parsed # Idle /\ FreshReport /\ benchmark_type \in Kinds) =>
        IF benchmark_type = "random"
        THEN /\ parsed.state = "done"
             /\ \A f \in {"x", "y_ce", "y_ao", "mean_y_ce", "mean_y_ao"} :
                   Len(parsed[f]) = nbr_points * Len(sweep)
             /\ Len(dat[1].lab) = 5
             /\ \A r \in 1..(nbr_points * Len(sweep)) :
                   LET b == completed[((r - 1) \div nbr_points) + 1]
                   IN  /\ Len(dat[1 + r].val) = 5
                       /\ dat[1 + r].val[1][1] = b.i
                       /\ dat[1 + r].val[4]
                             = Num("repr", Mean3(b.series.counterexample_times_process), "", "")
                       /\ dat[1 + r].val[5]
                             = Num("repr", Mean3(b.series.antichain_optimization_times_process),
                                   "", "")
        ELSE /\ parsed.mean_y_ce = <<>> /\ parsed.mean_y_ao = <<>>
             /\ Len(dat[1].lab) = 3
             /\ \A r \in 2..Len(dat) : Len(dat[r].val) = 3

\* two blocks of two trials whose means differ, one mean not one of the times
C10_Witness ==
    /\ parsed # Idle /\ parsed.state = "done" /\ FreshReport
    /\ benchmark_type = "random" /\ nbr_points = 2 /\ Len(sweep) = 2
    /\ dat[2].val[5] = dat[3].val[5] /\ dat[4].val[5] = dat[5].val[5]
    /\ dat[2].val[5] # dat[4].val[5]
    /\ dat[2].val[5] \notin {dat[2].val[3], dat[3].val[3]}

\* the float values of a recorded series (held in thousandths), as Python
\* values
Floats(s) == [k \in 1..Len(s) |-> Num("repr", s[k], "", "")]

\* the recorded entries of a series of all completed sweep values, in order
Recorded(name) ==
    Flatten([k \in 1..Len(completed) |-> Floats(completed[k].series[name])])

\* C11: parse_results decodes from the "CE times process" and "AO times
\* process" lines of the blocks run_benchmark wrote exactly the per-trial
\* process times run_benchmark recorded, in block order and trial order, and
\* the CE_time and AO_time columns of the dataset hold these values, row by
\* row.
C11_TimesRoundTrip ==
    (parsed # Idle /\ FreshReport /\ benchmark_type \in Kinds) =>
        \E ce \in {Recorded("counterexample_times_process")} :
        \E ao \in {Recorded("antichain_optimization_times_process")} :
            /\ parsed.state = "done"
            /\ Len(ce) = nbr_points * Len(sweep)
            /\ parsed.y_ce = ce
            /\ parsed.y_ao = ao
            /\ Len(dat) = 1 + Len(ce)
            /\ \A r \in 1..Len(ce) :
                  /\ dat[1 + r].val[2] = ce[r]
                  /\ dat[1 + r].val[3] = ao[r]

\* two blocks of two trials; the process times of the two trials of the
\* first block differ, for both algorithms
C11_Witness ==
    /\ parsed # Idle /\ parsed.state = "done" /\ FreshReport
    /\ nbr_points = 2 /\ Len(completed) = 2
    /\ completed[1].series.counterexample_times_process[1]
          # completed[1].series.counterexample_times_process[2]
    /\ dat[2].val[2] # dat[3].val[2]
    /\ dat[2].val[3] # dat[3].val[3]

IsProvide(c) == c.op = "provide"

\* two requests to the instance provider made for the same sweep value
SameValueRequests(k1, k2) ==
    /\ k1 < k2
    /\ IsProvide(calls[k1]) /\ IsProvide(calls[k2])
    /\ calls[k1].i = calls[k2].i

\* C12 as stated: whatever the kind, two trials of the same sweep value never
\* issue identical requests to the instance provider.
C12_DistinctRequests ==
    \A k1, k2 \in 1..Len(calls) :
        SameValueRequests(k1, k2) => calls[k1].req # calls[k2].req

\* C12 amended: every request carries the generation parameters of the kind
\* and the swept value i; for random it also carries the trial index j, so
\* two trials of a sweep value never issue identical requests; for the two
\* intersection kinds it carries i and the negated positivity flag only, so
\* all trials of a sweep value issue the same request.
C12_RequestArguments ==
    /\ \A k \in 1..Len(calls) :
          IsProvide(calls[k]) =>
              LET c == calls[k]
              IN  IF benchmark_type = "random"
                  THEN /\ c.req.fn = "random_automaton"
                       /\ Len(c.req.args) = 7
                       /\ c.req.args[3] = c.i
                       /\ c.req.args[7] = c.j
                       /\ \A q \in {1, 2} : c.req.args[q] = parameters[q]
                       /\ \A q \in {3, 4, 5} : c.req.args[q + 1] = parameters[q]
                  ELSE /\ c.req.fn = (IF benchmark_type = "intersection_vertices"
                                      THEN "intersection_example"
                                      ELSE "intersection_example_objective_increase")
                       /\ Len(c.req.args) = 2
                       /\ c.req.args[1] = c.i
                       /\ c.req.args[2] = (IF PyBool(parameters[1]) THEN 0 ELSE 1)
    /\ \A k1, k2 \in 1..Len(calls) :
          SameValueRequests(k1, k2) =>
              (calls[k1].req # calls[k2].req <=> benchmark_type = "random")

\* the two trials of a sweep value of the random kind have been requested
C12_Witness ==
    /\ benchmark_type = "random" /\ nbr_points = 2
    /\ Len(calls) >= 4
    /\ SameValueRequests(1, 4)
    /\ calls[1].j = 1 /\ calls[4].j = 2
    /\ calls[1].req # calls[4].req

\* m is num / den rounded to the nearest integer
IsNearest(m, num, den) ==
    LET d == m * den - num
    IN  2 * (IF d < 0 THEN -d ELSE d) <= den

\* where each mean of a block is written: the series, the label of the line,
\* the position of the mean on the line, and the thousandths one unit of an
\* entry is worth (1000 for the series of ints, 1 for the series of floats)
WrittenMeans ==
    { [name |-> "counterexample_times_process",
       lab |-> <<"Mean", "running", "time", "CE">>, at |-> 1, unit |-> 1],
      [name |-> "counterexample_times_perf_counter",
       lab |-> <<"Mean", "running", "time", "CE">>, at |-> 2, unit |-> 1],
      [name |-> "counterexample_times",
       lab |-> <<"Mean", "running", "time", "CE">>, at |-> 3, unit |-> 1],
      [name |-> "antichain_optimization_times_process",
       lab |-> <<"Mean", "running", "time", "AO">>, at |-> 1, unit |-> 1],
      [name |-> "antichain_optimization_times_perf_counter",
       lab |-> <<"Mean", "running", "time", "AO">>, at |-> 2, unit |-> 1],
      [name |-> "antichain_optimization_times",
       lab |-> <<"Mean", "running", "time", "AO">>, at |-> 3, unit |-> 1],
      [name |-> "temp_antichain_sizes",
       lab |-> <<"Mean", "antichain", "size">>, at |-> 1, unit |-> 1000],
      [name |-> "temp_nbr_payoffs_losing_player_0",
       lab |-> <<"Mean", "number", "losing", "payoffs">>, at |-> 1, unit |-> 1000],
      [name |-> "temp_nbr_payoffs_realizable",
       lab |-> <<"Mean", "number", "realizable", "payoffs">>, at |-> 1, unit |-> 1000],
      [name |-> "temp_counterexample_antichain_sizes",
       lab |-> <<"CE", "mean", "antichain", "size">>, at |-> 1, unit |-> 1000],
      [name |-> "temp_counterexample_nbr_calls_exists",
       lab |-> <<"CE", "mean", "nbr", "exists", "calls">>, at |-> 1, unit |-> 1000],
      [name |-> "temp_counterexample_mean_time_calls_exists",
       lab |-> <<"CE", "mean", "exists", "time">>, at |-> 1, unit |-> 1],
      [name |-> "temp_counterexample_nbr_calls_dominated",
       lab |-> <<"CE", "mean", "nbr", "dominated", "calls">>, at |-> 1, unit |-> 1000],
      [name |-> "temp_counterexample_mean_time_calls_dominated",
       lab |-> <<"CE", "mean", "dominated", "time">>, at |-> 1, unit |-> 1],
      [name |-> "temp_counterexample_nbr_calls",
       lab |-> <<"CE", "mean", "total", "nbr", "calls">>, at |-> 1, unit |-> 1000],
      [name |-> "temp_antichain_optimization_antichain_sizes",
       lab |-> <<"AO", "mean", "antichain", "size">>, at |-> 1, unit |-> 1000],
      [name |-> "temp_antichain_optimization_nbr_calls1",
       lab |-> <<"AO", "mean", "nbr", "call1", "calls">>, at |-> 1, unit |-> 1000],
      [name |-> "temp_antichain_optimization_mean_time_calls1",
       lab |-> <<"AO", "mean", "call1", "time">>, at |-> 1, unit |-> 1],
      [name |-> "temp_antichain_optimization_nbr_calls2",
       lab |-> <<"AO", "mean", "nbr", "call2", "calls">>, at |-> 1, unit |-> 1000],
      [name |-> "temp_antichain_optimization_mean_time_calls2",
       lab |-> <<"AO", "mean", "call2", "time">>, at |-> 1, unit |-> 1],
      [name |-> "temp_antichain_optimization_nbr_calls",
       lab |-> <<"AO", "mean", "total", "nbr", "calls">>, at |-> 1, unit |-> 1000] }

\* the token of mean w in the k-th block of the lines app
MeanToken(app, w, k) == SelectSeq(app, LAMBDA l : l.lab = w.lab)[k].val[w.at]

\* every mean of every block written during the call is a number with three
\* decimals, the nearest to the arithmetic mean of the series recorded
MeansWritten ==
    \E app \in {Appended} :
        /\ {w.name : w \in WrittenMeans} = SeriesNames
        /\ \A w \in WrittenMeans : \A k \in 1..Len(completed) :
              \E t \in {MeanToken(app, w, k)} :
                  /\ KindOf(t).fmt = "f3"
                  /\ Len(completed[k].series[w.name]) = nbr_points
                  /\ IsNearest(t[1], w.unit * SumSeq(completed[k].series[w.name]),
                               nbr_points)

CETimeOrder ==
    << "counterexample_times_process", "counterexample_times_perf_counter",
       "counterexample_times" >>

AOTimeOrder ==
    << "antichain_optimization_times_process",
       "antichain_optimization_times_perf_counter", "antichain_optimization_times" >>

\* a step that records the three durations of an algorithm records each
\* rounded to three decimals (durations are in 1/10000 s, entries in 1/1000)
RoundedWhenMeasured ==
    /\ (pc = "ce" /\ pc' = "ao") =>
          \A q \in 1..3 :
              /\ Len(series'[CETimeOrder[q]]) = Len(series[CETimeOrder[q]]) + 1
              /\ IsNearest(series'[CETimeOrder[q]][Len(series'[CETimeOrder[q]])],
                           aut.ce[q], 10)
    /\ (pc = "ao" /\ pc' \in {"trial", "open"}) =>
          \A q \in 1..3 :
              /\ Len(series'[AOTimeOrder[q]]) = Len(series[AOTimeOrder[q]]) + 1
              /\ IsNearest(series'[AOTimeOrder[q]][Len(series'[AOTimeOrder[q]])],
                           aut.ao[q], 10)

\* C13: every mean run_benchmark writes for a sweep value is the arithmetic
\* mean of the N entries recorded in the corresponding series, rounded to 3
\* decimals, and the timing entries are the durations rounded to 3 decimals
\* when they are measured.
C13_RoundedMeans == [](BlocksWritten => MeansWritten) /\ [][RoundedWhenMeasured]_vars

\* a block of two trials whose mean antichain size, 2.500, and mean AO
\* process time are not among the entries
C13_Witness ==
    /\ BlocksWritten /\ nbr_points = 2
    /\ completed[1].series.temp_antichain_sizes = <<2, 3>>
    /\ MeanToken(Appended, CHOOSE w \in WrittenMeans : w.name = "temp_antichain_sizes", 1)[1]
          = 2500
    /\ completed[1].series.antichain_optimization_times_process[1]
          # completed[1].series.antichain_optimization_times_process[2]

\* the label prefixes parse_results compares the first words of a line with
ParserPrefixes ==
    { <<"Variable", "value", "used">>,
      <<"CE", "times", "process">>,
      <<"AO", "times", "process">>,
      <<"Mean", "running", "time", "CE">>,
      <<"Mean", "running", "time", "AO">> }

\* the positions in app of the lines of its k-th block, app being n blocks
BlockPositions(app, n, k) ==
    LET len == Len(app) \div n
    IN  ((k - 1) * len + 1)..(k * len)

\* in every block of app, each prefix of parse_results selects one line, each
\* label of generate_tables occurs in one line, once, and parse_results goes
\* through every line, blank or short, without an error
UnambiguousLabels(app, n) ==
    /\ Len(app) % n = 0
    /\ \A p \in 1..Len(app) :
          /\ \A ws \in ParserPrefixes : MatchLabel(app[p], ws) # "IndexError"
          /\ ScanLine(ScanStart, app[p], benchmark_type, nbr_points).state = "ok"
    /\ \A k \in 1..n :
          /\ \A ws \in ParserPrefixes :
                Cardinality({p \in BlockPositions(app, n, k) :
                                MatchLabel(app[p], ws) = "yes"}) = 1
          /\ \A q \in 1..Len(Patterns) :
                \E hits \in {{p \in BlockPositions(app, n, k) :
                                 Occurrences(app[p], Patterns[q]) # {}}} :
                    /\ Cardinality(hits) = 1
                    /\ \A p \in hits : SplitsInTwo(app[p], Patterns[q])

\* C14: in every block run_benchmark writes, each label prefix parse_results
\* matches selects exactly one line, each of the five labels generate_tables
\* splits on occurs in exactly one line, and no line of the block, the blank
\* lines and the lines shorter than a prefix included, makes parse_results
\* fail.
C14_UnambiguousKeys ==
    BlocksWritten => \E app \in {Appended} : UnambiguousLabels(app, Len(completed))

\* two blocks of the random kind, which reads all five prefixes, holding
\* blank lines and a line of three tokens, shorter than the longest prefix
C14_Witness ==
    /\ BlocksWritten /\ benchmark_type = "random"
    /\ nbr_points = 1 /\ Len(completed) = 2
    /\ \E p \in 1..Len(Appended) : Appended[p] = BlankLine
    /\ \E p \in 1..Len(Appended) :
          Appended[p].lab = <<"CE", "times">> /\ NTokens(Appended[p]) = 3
    /\ parsed # Idle /\ parsed.state = "done"
====
